---- MODULE Spec2Model ----
(***************************************************************************)
(* A model of the image store of rivo/duplo (package duplo): the Store     *)
(* with its candidates, id map, index buckets and modified flag, guarded   *)
(* by a reader/writer mutex, and the operations Add, Delete, Exchange,     *)
(* Has, IDs, Size, Modified, Query, GobEncode and GobDecode called by      *)
(* concurrent goroutines.                                                  *)
(*                                                                         *)
(* Floating point coefficients are modelled by small integers, the scoring *)
(* weights by hundredths.  Go slices are sequences; a slot index i of the  *)
(* code (0-based) is element i+1 of the sequence "candidates"; a colour    *)
(* channel ch (0-based) is element ch+1 of a Coef.                         *)
(***************************************************************************)
EXTENDS Integers, Sequences, FiniteSets, TLC

\* ------------------------------------------------------------ bounds

\* ImageScale is a package variable (128 by default); the model scales it
\* down.  The matrix of a hash has ImageScale * ImageScale coefficients.
ImageScale == 2

\* TopCoefs is a package variable (40 by default); the model scales it down.
TopCoefs == 2

\* The largest number of candidate slots a store of the model may hold.
MaxSize == 2

\* The largest number of GobDecode calls.
MaxDecodes == 1

\* The largest number of Add, Delete and Exchange calls after a GobDecode.
MaxWrites == 1

\* The goroutines calling into the store.
Procs == {1, 2}

\* The ids callers use.
IDs == {"imgA", "imgB", "imgC"}

\* ------------------------------------------------------------ values

ColourChannels == 3

Nil == "nil"

NumCoefs == ImageScale * ImageScale

\* Coefficient positions, 0 is the scaling function (DC) coefficient.
Positions == 0 .. (NumCoefs - 1)

Signs == {0, 1}

Abs(x) == IF x < 0 THEN -x ELSE x

EmptyMap == [x \in {} |-> 0]

MapPut(m, k, v) == [x \in (DOMAIN m) \cup {k} |-> IF x = k THEN v ELSE m[x]]

MapDelete(m, k) == [x \in (DOMAIN m) \ {k} |-> m[x]]

\* ------------------------------------------------------------ hashes

\* The coefficient matrices (the result of haar.Transform) of the images of
\* the model: "U" is a uniform image (all detail coefficients zero), "A" and
\* "B" have positive and negative detail coefficients and ties.
ImageNames == {"A", "B", "U"}

ImageCoefs(name) ==
    [p \in Positions |->
        CASE name = "U" -> IF p = 0 THEN <<3, 1, 2>> ELSE <<0, 0, 0>>
          [] name = "A" -> IF p = 0 THEN <<9, 1, 5>>
                           ELSE <<p, -p, IF p % 2 = 0 THEN 4 ELSE 0>>
          [] OTHER      -> IF p = 0 THEN <<2, 2, 2>>
                           ELSE <<-p, NumCoefs - p, -1>>]

\* The values of channel n (1-based) of a list of coefficients, signs kept.
SignedColumn(coefs, n) == [i \in 1 .. Len(coefs) |-> coefs[i][n]]

\* The absolute values of channel n (1-based) of a list of coefficients.
AbsColumn(coefs, n) == [i \in 1 .. Len(coefs) |-> Abs(coefs[i][n])]

\* What a run of coefThreshold yields when rand.Intn is called with 0.
IntnPanic == 0 - 1

\* QuickSelect that takes the pivot to occur once in the list.
RECURSIVE coefThresholdRunsLoose(_, _)
coefThresholdRunsLoose(vals, k) ==
    IF vals = <<>> THEN {[val |-> IntnPanic, calls |-> 1]}
    ELSE UNION { LET pivot == vals[r]
                     IsLeft(v) == v > pivot
                     IsRight(v) == v < pivot
                     left == SelectSeq(vals, IsLeft)
                     right == SelectSeq(vals, IsRight)
                     Deeper(runs) == {[val |-> run.val, calls |-> run.calls + 1] : run \in runs}
                 IN  IF k <= Len(left) THEN Deeper(coefThresholdRunsLoose(left, k))
                     ELSE IF k > Len(left) + 1
                          THEN Deeper(coefThresholdRunsLoose(right, k - (Len(left) + 1)))
                          ELSE {[val |-> pivot, calls |-> 1]}
               : r \in 1 .. Len(vals) }

\* coefThreshold: QuickSelect with a random pivot.  The operator yields the
\* runs of the function over all pivot choices, each with the value it
\* returns and the number of calls it makes; vals is the list of absolute
\* values of the channel.
RECURSIVE coefThresholdRuns(_, _)
coefThresholdRuns(vals, k) ==
    IF vals = <<>> THEN {[val |-> IntnPanic, calls |-> 1]}
    ELSE UNION { LET pivot == vals[r]
                     IsLeft(v) == v > pivot
                     IsRight(v) == v < pivot
                     left == SelectSeq(vals, IsLeft)
                     right == SelectSeq(vals, IsRight)
                     Deeper(runs) == {[val |-> run.val, calls |-> run.calls + 1] : run \in runs}
                 IN  IF k <= Len(left) THEN Deeper(coefThresholdRuns(left, k))
                     ELSE IF k > Len(vals) - Len(right)
                          THEN Deeper(coefThresholdRuns(right, k - (Len(vals) - Len(right))))
                          ELSE {[val |-> pivot, calls |-> 1]}
               : r \in 1 .. Len(vals) }

\* The set of values coefThreshold can return.
coefThreshold(vals, k) == {run.val : run \in coefThresholdRuns(vals, k)}

\* coefThresholds: the sets of possible thresholds, per channel; the zero
\* Coef for an empty list.
coefThresholds(coefs, k) ==
    IF Len(coefs) = 0 THEN [n \in 1 .. ColourChannels |-> {0}]
    ELSE [n \in 1 .. ColourChannels |-> coefThreshold(AbsColumn(coefs, n), k)]

MatrixAsSeq(m) == [i \in 1 .. NumCoefs |-> m[i - 1]]

\* The other fingerprints of an image; bit vectors are sets of bit numbers.
ImageRatio(name) == CASE name = "U" -> 1 [] name = "A" -> 2 [] OTHER -> 4

\* dHash writes the bits of a word from its first position on without gaps
\* (from 0 for Y and Cb, from 32 for Cr).
ImageDHash(name) ==
    CASE name = "U" -> <<{}, {}>> [] name = "A" -> <<{0, 1}, {32}>> [] OTHER -> <<{0}, {0, 32, 33}>>

\* histogram sets bits below 32 only.
ImageHistogram(name) ==
    CASE name = "U" -> {8, 12, 24} [] name = "A" -> {0, 1} [] OTHER -> {1, 17}

ImageHistoMax(name) ==
    CASE name = "U" -> <<100, 100, 100>> [] name = "A" -> <<40, 50, 60>> [] OTHER -> <<30, 50, 70>>

\* CreateHash: the hashes CreateHash can return for an image.
CreateHash(name) ==
    LET coefs == ImageCoefs(name)
        ths == coefThresholds(MatrixAsSeq(coefs), TopCoefs)
    IN  { [Coefs |-> coefs, Width |-> ImageScale, Height |-> ImageScale,
           Thresholds |-> <<t1, t2, t3>>, Ratio |-> ImageRatio(name),
           DHash |-> ImageDHash(name), Histogram |-> ImageHistogram(name),
           HistoMax |-> ImageHistoMax(name)]
          : t1 \in ths[1], t2 \in ths[2], t3 \in ths[3] }

\* The hashes callers pass to Add and Query.
Hashes == UNION { CreateHash(name) : name \in ImageNames }

\* ------------------------------------------------------------ the store

\* The scoring weights, in hundredths.
weights ==
    << <<500, 83, 101, 52, 47, 30>>,
       <<1921, 126, 44, 53, 28, 14>>,
       <<3437, 36, 45, 14, 18, 27>> >>

\* New: an empty store; every indices[sign][coefIndex] is a nil slice.
New ==
    [candidates |-> <<>>,
     ids |-> EmptyMap,
     coefSize |-> 0,
     indices |-> [s \in Signs |-> [p \in Positions |-> <<>>]],
     modified |-> FALSE]

\* A coefficient of a hash that passes the threshold of its channel
\* (the negation of the test "math.Abs(colourCoef) < hash.Thresholds[colourIndex]").
Significant(hash, p, c) == ~(Abs(hash.Coefs[p][c]) < hash.Thresholds[c])

\* The sign index with zero counted as negative.
SignOfNonPositive(v) == IF v <= 0 THEN 1 ELSE 0

\* The sign index of a coefficient: 1 if it is negative, else 0.
SignOf(v) == IF v < 0 THEN 1 ELSE 0

\* Add that puts the candidate into a tombstoned slot if there is one.
AddCandidateReusesSlot(st, id, hash) ==
    LET grow == IF Len(hash.Thresholds) > st.coefSize
                THEN Len(hash.Thresholds) - st.coefSize ELSE 0
        cand == [id |-> id, scaleCoef |-> hash.Coefs[0], ratio |-> hash.Ratio,
                 dHash |-> hash.DHash, histogram |-> hash.Histogram,
                 histoMax |-> hash.HistoMax]
        free == {i \in 1 .. Len(st.candidates) : st.candidates[i].id = Nil}
    IN  [st EXCEPT
           !.indices = [s \in Signs |-> [p \in Positions |->
                           st.indices[s][p] \o [i \in 1 .. grow |-> <<>>]]],
           !.coefSize = Len(hash.Thresholds),
           !.candidates = IF free = {} THEN Append(@, cand)
                          ELSE [@ EXCEPT ![CHOOSE i \in free : TRUE] = cand]]

\* Add, first part: make room in the index and append the candidate.
AddCandidate(st, id, hash) ==
    LET grow == IF Len(hash.Thresholds) > st.coefSize
                THEN Len(hash.Thresholds) - st.coefSize ELSE 0
    IN  [st EXCEPT
           !.indices = [s \in Signs |-> [p \in Positions |->
                           st.indices[s][p] \o [i \in 1 .. grow |-> <<>>]]],
           !.coefSize = Len(hash.Thresholds),
           !.candidates = Append(@, [id |-> id,
                                     scaleCoef |-> hash.Coefs[0],
                                     ratio |-> hash.Ratio,
                                     dHash |-> hash.DHash,
                                     histogram |-> hash.Histogram,
                                     histoMax |-> hash.HistoMax])]

\* Add, second part: enter the id into the id map.
AddID(st, id, index) == [st EXCEPT !.ids = MapPut(@, id, index)]

\* Whether Add's distribution loop indexes a bucket that does not exist.
AddPanics(st, hash) ==
    \E p \in Positions \ {0}, c \in 1 .. ColourChannels :
        /\ Significant(hash, p, c)
        /\ Len(st.indices[SignOf(hash.Coefs[p][c])][p]) < c

\* Add's distribution with the threshold test the wrong way at equality: a
\* coefficient that equals the threshold is not indexed.
AddBucketsStrict(st, hash, index) ==
    [st EXCEPT !.indices =
        [s \in Signs |-> [p \in Positions |->
            [c \in 1 .. Len(st.indices[s][p]) |->
                IF /\ p # 0
                   /\ c <= ColourChannels
                   /\ Abs(hash.Coefs[p][c]) > hash.Thresholds[c]
                   /\ SignOf(hash.Coefs[p][c]) = s
                THEN Append(st.indices[s][p][c], index)
                ELSE st.indices[s][p][c]]]]]

\* Add, third part: distribute the candidate index into the buckets.
AddBuckets(st, hash, index) ==
    [st EXCEPT !.indices =
        [s \in Signs |-> [p \in Positions |->
            [c \in 1 .. Len(st.indices[s][p]) |->
                IF /\ p # 0
                   /\ c <= ColourChannels
                   /\ Significant(hash, p, c)
                   /\ SignOf(hash.Coefs[p][c]) = s
                THEN Append(st.indices[s][p][c], index)
                ELSE st.indices[s][p][c]]]]]

\* Add, last part: the image was added.
AddModified(st) == [st EXCEPT !.modified = TRUE]

\* hammingDistance: the number of differing bits.
hammingDistance(a, b) == Cardinality((a \ b) \cup (b \ a))

\* math.Log of a ratio, in units of ln 2 (the ratios of the model are powers of 2).
Log2(r) == CASE r = 1 -> 0 [] r = 2 -> 1 [] r = 4 -> 2 [] OTHER -> 3

\* The coefficients of the first colour channel only, in loop order.
ProbesFirstColour(hash) ==
    LET all == [k \in 1 .. (NumCoefs - 1) |-> <<k, 1>>]
        Keep(pc) == Significant(hash, pc[1], pc[2])
    IN  SelectSeq(all, Keep)

\* The coefficients Query looks up, in loop order: <<coefIndex, colourIndex>>.
Probes(hash) ==
    LET all == [k \in 1 .. (NumCoefs - 1) * ColourChannels |->
                   <<1 + ((k - 1) \div ColourChannels), 1 + ((k - 1) % ColourChannels)>>]
        Keep(pc) == Significant(hash, pc[1], pc[2])
    IN  SelectSeq(all, Keep)

\* Whether Query indexes a bucket or a candidate that does not exist.
QueryPanics(st, hash) ==
    LET probes == Probes(hash)
    IN  \E k \in 1 .. Len(probes) :
            LET p == probes[k][1]
                c == probes[k][2]
                row == st.indices[SignOf(hash.Coefs[p][c])][p]
            IN  \/ Len(row) < c
                \/ \E j \in 1 .. Len(row[c]) : row[c][j] >= Len(st.candidates)

\* The candidate indices Query visits, in loop order, each with the
\* coefficient index that led to it.
RECURSIVE Visits(_, _, _)
Visits(st, hash, probes) ==
    IF probes = <<>> THEN <<>>
    ELSE LET p == Head(probes)[1]
             c == Head(probes)[2]
             bucket == st.indices[SignOf(hash.Coefs[p][c])][p][c]
         IN  [j \in 1 .. Len(bucket) |-> [index |-> bucket[j], coefIndex |-> p]]
             \o Visits(st, hash, Tail(probes))

\* A nil entry of Query's matches slice.
NilMatch == [nil |-> TRUE]

\* The Match of a candidate when Query meets it first.
InitialMatch(cand, hash) ==
    [ID |-> cand.id,
     Score |-> weights[1][1] * Abs(cand.scaleCoef[1] - hash.Coefs[0][1])
             + weights[2][1] * Abs(cand.scaleCoef[2] - hash.Coefs[0][2])
             + weights[3][1] * Abs(cand.scaleCoef[3] - hash.Coefs[0][3]),
     RatioDiff |-> Abs(Log2(cand.ratio) - Log2(hash.Ratio)),
     DHashDistance |-> hammingDistance(cand.dHash[1], hash.DHash[1])
                     + hammingDistance(cand.dHash[2], hash.DHash[2]),
     HistogramDistance |-> hammingDistance(cand.histogram, hash.Histogram)]

\* The weight bin of a coefficient index.
Bin(hash, coefIndex) ==
    LET y == coefIndex \div hash.Width
        x == coefIndex % hash.Height
        bin == IF x > y THEN x ELSE y
    IN  IF bin > 5 THEN 5 ELSE bin

\* The weight of the first colour only, for one bucket hit.
HitWeightFirstColour(hash, coefIndex) == weights[1][Bin(hash, coefIndex) + 1]

\* The weights subtracted for one bucket hit (one per colour of the coefficient).
HitWeight(hash, coefIndex) ==
    weights[1][Bin(hash, coefIndex) + 1] + weights[2][Bin(hash, coefIndex) + 1]
        + weights[3][Bin(hash, coefIndex) + 1]

\* Query's loop over the buckets: matches[i+1] is Nil or the Match of slot i.
RECURSIVE QueryLoop(_, _, _, _)
QueryLoop(st, hash, visits, matches) ==
    IF visits = <<>> THEN matches
    ELSE LET i == Head(visits).index + 1
             m == IF matches[i] = NilMatch
                  THEN InitialMatch(st.candidates[i], hash) ELSE matches[i]
             hit == [m EXCEPT !.Score = @ - HitWeight(hash, Head(visits).coefIndex)]
         IN  QueryLoop(st, hash, Tail(visits), [matches EXCEPT ![i] = hit])

\* Query: the matches in slot order, nil entries removed.
Query(st, hash) ==
    IF Len(st.candidates) = 0 THEN [panic |-> FALSE, matches |-> <<>>]
    ELSE IF QueryPanics(st, hash) THEN [panic |-> TRUE, matches |-> <<>>]
    ELSE LET matches == QueryLoop(st, hash, Visits(st, hash, Probes(hash)),
                                  [i \in 1 .. Len(st.candidates) |-> NilMatch])
             NotNil(m) == m # NilMatch
         IN  [panic |-> FALSE, matches |-> SelectSeq(matches, NotNil)]

\* Size as the number of live ids.
SizeLive(st) == Cardinality(DOMAIN st.ids)

\* Size: the number of candidate slots.
Size(st) == Len(st.candidates)

\* Modified: the modified flag.
Modified(st) == st.modified

\* Has: whether the id map holds the id.
Has(st, id) == id \in DOMAIN st.ids

\* IDs: the ids of the id map.
StoreIDs(st) == DOMAIN st.ids

\* A sequence without its first occurrence of a value.
RemoveFirst(s, v) ==
    IF \E k \in 1 .. Len(s) : s[k] = v
    THEN LET k == CHOOSE k \in 1 .. Len(s) :
                      s[k] = v /\ \A j \in 1 .. (k - 1) : s[j] # v
         IN  SubSeq(s, 1, k - 1) \o SubSeq(s, k + 1, Len(s))
    ELSE s

\* Whether Delete or Exchange indexes a candidate that does not exist.
SlotMissing(st, id) == id \in DOMAIN st.ids /\ st.ids[id] >= Len(st.candidates)

\* Delete, first part: tombstone the slot and remove the id from the map.
DeleteTombstone(st, id) ==
    [st EXCEPT !.candidates[st.ids[id] + 1].id = Nil,
               !.ids = MapDelete(@, id)]

\* Delete that leaves the buckets alone.
DeleteBucketsKeep(st, index) == [st EXCEPT !.modified = TRUE]

\* Delete, second part: remove the slot from every bucket; the store is modified.
DeleteBuckets(st, index) ==
    [st EXCEPT !.indices =
                  [s \in Signs |-> [p \in Positions |->
                      [c \in 1 .. Len(st.indices[s][p]) |->
                          RemoveFirst(st.indices[s][p][c], index)]]],
               !.modified = TRUE]

\* Exchange without the test for newID: a present newID is overwritten.
ExchangeOverwrite(st, oldID, newID) ==
    IF oldID \notin DOMAIN st.ids THEN [err |-> Nil, store |-> st]
    ELSE IF SlotMissing(st, oldID) THEN [err |-> "panic", store |-> st]
    ELSE [err |-> Nil,
          store |-> [st EXCEPT !.ids = MapPut(MapDelete(@, oldID), newID, st.ids[oldID]),
                               !.candidates[st.ids[oldID] + 1].id = newID,
                               !.modified = TRUE]]

\* Exchange that reports a missing oldID as an error.
ExchangeMissingFails(st, oldID, newID) ==
    IF oldID \notin DOMAIN st.ids THEN [err |-> "ID not in store", store |-> st]
    ELSE IF newID \in DOMAIN st.ids THEN [err |-> "ID already in store", store |-> st]
    ELSE IF SlotMissing(st, oldID) THEN [err |-> "panic", store |-> st]
    ELSE [err |-> Nil,
          store |-> [st EXCEPT !.ids = MapPut(MapDelete(@, oldID), newID, st.ids[oldID]),
                               !.candidates[st.ids[oldID] + 1].id = newID,
                               !.modified = TRUE]]

\* Exchange that leaves oldID in the id map.
ExchangeKeepsOld(st, oldID, newID) ==
    IF oldID \notin DOMAIN st.ids THEN [err |-> Nil, store |-> st]
    ELSE IF newID \in DOMAIN st.ids THEN [err |-> "ID already in store", store |-> st]
    ELSE IF SlotMissing(st, oldID) THEN [err |-> "panic", store |-> st]
    ELSE [err |-> Nil,
          store |-> [st EXCEPT !.ids = MapPut(@, newID, st.ids[oldID]),
                               !.candidates[st.ids[oldID] + 1].id = newID,
                               !.modified = TRUE]]

\* Exchange: the error (Nil for none) and the store afterwards.
Exchange(st, oldID, newID) ==
    IF oldID \notin DOMAIN st.ids THEN [err |-> Nil, store |-> st]
    ELSE IF newID \in DOMAIN st.ids THEN [err |-> "ID already in store", store |-> st]
    ELSE IF SlotMissing(st, oldID) THEN [err |-> "panic", store |-> st]
    ELSE [err |-> Nil,
          store |-> [st EXCEPT !.ids = MapPut(MapDelete(@, oldID), newID, st.ids[oldID]),
                               !.candidates[st.ids[oldID] + 1].id = newID,
                               !.modified = TRUE]]

\* ------------------------------------------------------------ the codec

\* One value written by the gob encoder: its type and the value.
Field(t, v) == [t |-> t, v |-> v]

\* A candidate written without its histogram maxima.
EncodeCandidateOld(cand) ==
    << Field("interface", cand.id),
       Field("Coef", cand.scaleCoef),
       Field("float64", cand.ratio),
       Field("[2]uint64", cand.dHash),
       Field("uint64", cand.histogram) >>

\* The six values GobEncode writes for a candidate.
EncodeCandidate(cand) ==
    << Field("interface", cand.id),
       Field("Coef", cand.scaleCoef),
       Field("float64", cand.ratio),
       Field("[2]uint64", cand.dHash),
       Field("uint64", cand.histogram),
       Field("[3]float32", cand.histoMax) >>

RECURSIVE EncodeCandidates(_)
EncodeCandidates(cands) ==
    IF cands = <<>> THEN <<>>
    ELSE EncodeCandidate(Head(cands)) \o EncodeCandidates(Tail(cands))

\* The index as the nested slices gob writes.
EncodeIndices(indices) ==
    [s \in 1 .. Cardinality(Signs) |-> [p \in 1 .. NumCoefs |-> indices[s - 1][p - 1]]]

\* GobEncode: the gzip stream of the values of the store, in writing order.
GobEncode(st) ==
    [gzip |-> TRUE,
     fields |-> << Field("int", 1), Field("int", Len(st.candidates)) >>
                \o EncodeCandidates(st.candidates)
                \o << Field("map", st.ids),
                      Field("int", st.coefSize),
                      Field("[][][][]int", EncodeIndices(st.indices)) >>]

\* The types GobDecode reads, in reading order, for size candidates.
DecodeTypes(size) ==
    << "int", "int" >>
    \o [k \in 1 .. 6 * size |->
           CASE k % 6 = 1 -> "interface"
             [] k % 6 = 2 -> "Coef"
             [] k % 6 = 3 -> "float64"
             [] k % 6 = 4 -> "[2]uint64"
             [] k % 6 = 5 -> "uint64"
             [] OTHER     -> "[3]float32"]
    \o << "map", "int", "[][][][]int" >>

\* An element of "make([]candidate, size)".
ZeroCandidate ==
    [id |-> Nil, scaleCoef |-> <<0, 0, 0>>, ratio |-> 0, dHash |-> <<{}, {}>>,
     histogram |-> {}, histoMax |-> <<0, 0, 0>>]

\* The error GobDecode returns when the k-th Decode fails.
DecodeError(k, size) ==
    CASE k = 1 -> "Unable to decode store version"
      [] k = 2 -> "Unable to decode candidate length"
      [] k = 3 + 6 * size -> "Unable to decode ID set"
      [] k = 4 + 6 * size -> "Unable to decode coefficient size"
      [] k = 5 + 6 * size -> "Unable to decode indices"
      [] OTHER -> "Unable to decode candidate"

\* decoder.Decode(&store.ids): gob enters the decoded keys into the map
\* the store holds.
DecodeMap(old, new) ==
    [x \in (DOMAIN old) \cup (DOMAIN new) |-> IF x \in DOMAIN new THEN new[x] ELSE old[x]]

DecodeIndices(v) ==
    [s \in Signs |-> [p \in Positions |-> v[s + 1][p + 1]]]

\* GobDecode: the error (Nil for none) and the store afterwards.  The
\* values are decoded one by one into the store; the first value that is
\* missing or of another type ends the decoding with an error.
GobDecode(st, from) ==
    IF ~from.gzip THEN [err |-> "Unable to open decompressor", store |-> st]
    ELSE
    LET f == from.fields
        Good(k, t) == k <= Len(f) /\ f[k].t = t
        size == f[2].v
        types == DecodeTypes(size)
        \* the number of values decoded before the first failure
        good == IF ~Good(1, "int") THEN 0
                ELSE IF ~Good(2, "int") THEN 1
                ELSE IF \A k \in 1 .. Len(types) : Good(k, types[k]) THEN Len(types)
                ELSE (CHOOSE k \in 1 .. Len(types) :
                         /\ ~Good(k, types[k])
                         /\ \A j \in 1 .. (k - 1) : Good(j, types[j])) - 1
        Decoded(i, j, zero) ==
            IF 2 + 6 * (i - 1) + j <= good THEN f[2 + 6 * (i - 1) + j].v ELSE zero
        cands == [i \in 1 .. size |->
                    [id |-> Decoded(i, 1, ZeroCandidate.id),
                     scaleCoef |-> Decoded(i, 2, ZeroCandidate.scaleCoef),
                     ratio |-> Decoded(i, 3, ZeroCandidate.ratio),
                     dHash |-> Decoded(i, 4, ZeroCandidate.dHash),
                     histogram |-> Decoded(i, 5, ZeroCandidate.histogram),
                     histoMax |-> Decoded(i, 6, ZeroCandidate.histoMax)]]
    IN  IF good < 2 THEN [err |-> DecodeError(good + 1, 0), store |-> st]
        ELSE LET st1 == [st EXCEPT !.candidates = cands]
                 st2 == IF good >= 3 + 6 * size
                        THEN [st1 EXCEPT !.ids = DecodeMap(@, f[3 + 6 * size].v)]
                        ELSE st1
                 st3 == IF good >= 4 + 6 * size
                        THEN [st2 EXCEPT !.coefSize = f[4 + 6 * size].v]
                        ELSE st2
                 st4 == IF good >= 5 + 6 * size
                        THEN [st3 EXCEPT
                                !.indices = DecodeIndices(f[5 + 6 * size].v),
                                !.coefSize = IF size > 0 THEN ColourChannels ELSE 0]
                        ELSE st3
             IN  IF good >= 5 + 6 * size THEN [err |-> Nil, store |-> st4]
                 ELSE [err |-> DecodeError(good + 1, size), store |-> st4]

\* Add and Delete as a whole, to build the stores whose encodings are
\* decoded in the model.
AddAll(st, id, hash) ==
    IF id \in DOMAIN st.ids THEN st
    ELSE AddModified(AddBuckets(AddID(AddCandidate(st, id, hash), id, Len(st.candidates)),
                                hash, Len(st.candidates)))

DeleteAll(st, id) ==
    IF id \notin DOMAIN st.ids THEN st
    ELSE DeleteBuckets(DeleteTombstone(st, id), st.ids[id])

HashA == CHOOSE h \in CreateHash("A") : TRUE

HashB == CHOOSE h \in CreateHash("B") : TRUE

\* The stores that were saved: an empty one, one image, and two images
\* with the first one deleted.
SavedOne == AddAll(New, "imgA", HashA)

SavedDeleted == DeleteAll(AddAll(AddAll(New, "imgA", HashA), "imgB", HashB), "imgA")

SavedStores == {New, SavedOne, SavedDeleted}

\* What GobDecode is called with: the bytes of a saved store, whole or cut
\* off after some value, or bytes that are no gzip stream.
Inputs ==
    { GobEncode(st) : st \in SavedStores }
    \cup { [gzip |-> TRUE, fields |-> SubSeq(GobEncode(SavedOne).fields, 1, n)] :
                n \in 0 .. Len(GobEncode(SavedOne).fields) }
    \cup { [gzip |-> FALSE, fields |-> <<>>] }

\* ------------------------------------------------------------ the callers

VARIABLES
    store,      \* the Store: candidates, ids, coefSize, indices, modified
    mutex,      \* the Store's sync.RWMutex: writer held, number of readers
    pc,         \* pc[p]: where goroutine p is ("idle", inside a method, "return")
    call,       \* call[p]: the method p is in and its arguments
    ret,        \* ret[p]: what the method returns to p
    entry,      \* entry[p]: the store as it was when p acquired the lock
    posted,     \* posted[i+1]: the hash slot i was added with
    deleted,    \* the id the last Delete has removed, Nil before the first
    decodes,    \* the number of GobDecode calls so far
    writes      \* the number of Add, Delete and Exchange calls since the first GobDecode

vars == <<store, mutex, pc, call, ret, entry, posted, deleted, decodes, writes>>

NoCall == [op |-> "none"]

NoRet == [none |-> TRUE]

\* Add under the shared lock.
AddLockShared == "RLock"

\* The kind of lock each method takes.
AddLock == "Lock"

QueryLock == "RLock"

SizeLock == "RLock"

ModifiedLock == "RLock"

DeleteLock == "Lock"

ExchangeLock == "Lock"

HasLock == "RLock"

IDsLock == "RLock"

GobEncodeLock == "RLock"

GobDecodeLock == "Lock"

LockOf(op) ==
    CASE op = "Add" -> AddLock
      [] op = "Delete" -> DeleteLock
      [] op = "Exchange" -> ExchangeLock
      [] op = "Query" -> QueryLock
      [] op = "Size" -> SizeLock
      [] op = "Modified" -> ModifiedLock
      [] op = "Has" -> HasLock
      [] op = "GobEncode" -> GobEncodeLock
      [] op = "GobDecode" -> GobDecodeLock
      [] OTHER -> IDsLock

\* A mutex that is taken without waiting for its holders.
AcquireWithoutWaiting(kind) ==
    IF kind = "Lock"
    THEN mutex' = [mutex EXCEPT !.writer = TRUE]
    ELSE mutex' = [mutex EXCEPT !.readers = @ + 1]

\* sync.RWMutex: Lock waits until nobody holds the mutex, RLock until no
\* writer holds it.
Acquire(kind) ==
    IF kind = "Lock"
    THEN /\ ~mutex.writer
         /\ mutex.readers = 0
         /\ mutex' = [mutex EXCEPT !.writer = TRUE]
    ELSE /\ ~mutex.writer
         /\ mutex' = [mutex EXCEPT !.readers = @ + 1]

Release(kind) ==
    IF kind = "Lock"
    THEN mutex' = [mutex EXCEPT !.writer = FALSE]
    ELSE mutex' = [mutex EXCEPT !.readers = @ - 1]

Init ==
    /\ store = New
    /\ mutex = [writer |-> FALSE, readers |-> 0]
    /\ pc = [p \in Procs |-> "idle"]
    /\ call = [p \in Procs |-> NoCall]
    /\ ret = [p \in Procs |-> NoRet]
    /\ entry = [p \in Procs |-> New]
    /\ posted = <<>>
    /\ deleted = Nil
    /\ decodes = 0
    /\ writes = 0

\* A goroutine calls a method: the call proceeds once it has the lock.
Enter(p, c, to) ==
    /\ pc[p] = "idle"
    /\ Acquire(LockOf(c.op))
    /\ pc' = [pc EXCEPT ![p] = to]
    /\ call' = [call EXCEPT ![p] = c]
    /\ entry' = [entry EXCEPT ![p] = store]

\* The method's deferred Unlock/RUnlock runs and the call returns.
Return(p) ==
    /\ pc[p] = "return"
    /\ Release(LockOf(call[p].op))
    /\ pc' = [pc EXCEPT ![p] = "idle"]
    /\ call' = [call EXCEPT ![p] = NoCall]
    /\ ret' = [ret EXCEPT ![p] = NoRet]
    /\ entry' = [entry EXCEPT ![p] = New]
    /\ UNCHANGED <<store, posted, deleted, decodes, writes>>

\* A call of Add, Delete or Exchange after a GobDecode is counted, up to the bound.
CountWrite ==
    IF decodes = 0 THEN UNCHANGED writes
    ELSE writes < MaxWrites /\ writes' = writes + 1

\* ---- Add

AddCall(p) ==
    \E id \in IDs, hash \in Hashes :
        /\ id \in DOMAIN store.ids \/ Len(store.candidates) < MaxSize
        /\ Enter(p, [op |-> "Add", id |-> id, hash |-> hash], "Add")
        /\ CountWrite
        /\ UNCHANGED <<store, ret, posted, deleted, decodes>>

\* Add without the test for a present id.
AddCheckAlways(p) ==
    /\ pc[p] = "Add"
    /\ store' = AddCandidate(store, call[p].id, call[p].hash)
    /\ pc' = [pc EXCEPT ![p] = "AddID"]
    /\ UNCHANGED <<mutex, call, ret, entry, posted, deleted, decodes, writes>>

\* "Do we already manage this image?"; if not, the candidate is appended.
AddCheck(p) ==
    /\ pc[p] = "Add"
    /\ IF call[p].id \in DOMAIN store.ids
       THEN /\ pc' = [pc EXCEPT ![p] = "return"]
            /\ UNCHANGED store
       ELSE /\ store' = AddCandidate(store, call[p].id, call[p].hash)
            /\ pc' = [pc EXCEPT ![p] = "AddID"]
    /\ UNCHANGED <<mutex, call, ret, entry, posted, deleted, decodes, writes>>

AddIDStep(p) ==
    /\ pc[p] = "AddID"
    /\ store' = AddID(store, call[p].id, Len(store.candidates) - 1)
    /\ pc' = [pc EXCEPT ![p] = "AddBuckets"]
    /\ UNCHANGED <<mutex, call, ret, entry, posted, deleted, decodes, writes>>

AddBucketsStep(p) ==
    /\ pc[p] = "AddBuckets"
    /\ IF AddPanics(store, call[p].hash)
       THEN /\ pc' = [pc EXCEPT ![p] = "return"]
            /\ ret' = [ret EXCEPT ![p] = [panic |-> TRUE]]
            /\ UNCHANGED store
       ELSE /\ store' = AddBuckets(store, call[p].hash, Len(store.candidates) - 1)
            /\ pc' = [pc EXCEPT ![p] = "AddModified"]
            /\ UNCHANGED ret
    /\ UNCHANGED <<mutex, call, entry, posted, deleted, decodes, writes>>

AddModifiedStep(p) ==
    /\ pc[p] = "AddModified"
    /\ store' = AddModified(store)
    /\ posted' = Append(posted, call[p].hash)
    /\ pc' = [pc EXCEPT ![p] = "return"]
    /\ UNCHANGED <<mutex, call, ret, entry, deleted, decodes, writes>>

\* ---- Delete

DeleteCall(p) ==
    \E id \in IDs :
        /\ Enter(p, [op |-> "Delete", id |-> id], "Delete")
        /\ CountWrite
        /\ UNCHANGED <<store, ret, posted, deleted, decodes>>

DeleteCheck(p) ==
    /\ pc[p] = "Delete"
    /\ IF call[p].id \notin DOMAIN store.ids
       THEN /\ pc' = [pc EXCEPT ![p] = "return"]
            /\ UNCHANGED <<store, ret>>
       ELSE IF SlotMissing(store, call[p].id)
       THEN /\ pc' = [pc EXCEPT ![p] = "return"]
            /\ ret' = [ret EXCEPT ![p] = [panic |-> TRUE]]
            /\ UNCHANGED store
       ELSE /\ store' = DeleteTombstone(store, call[p].id)
            /\ pc' = [pc EXCEPT ![p] = "DeleteBuckets"]
            /\ UNCHANGED ret
    /\ UNCHANGED <<mutex, call, entry, posted, deleted, decodes, writes>>

DeleteBucketsStep(p) ==
    /\ pc[p] = "DeleteBuckets"
    /\ store' = DeleteBuckets(store, entry[p].ids[call[p].id])
    /\ deleted' = call[p].id
    /\ pc' = [pc EXCEPT ![p] = "return"]
    /\ UNCHANGED <<mutex, call, ret, entry, posted, decodes, writes>>

\* ---- Exchange

ExchangeCall(p) ==
    \E oldID \in IDs, newID \in IDs :
        /\ Enter(p, [op |-> "Exchange", oldID |-> oldID, newID |-> newID], "Exchange")
        /\ CountWrite
        /\ UNCHANGED <<store, ret, posted, deleted, decodes>>

ExchangeStep(p) ==
    /\ pc[p] = "Exchange"
    /\ store' = Exchange(store, call[p].oldID, call[p].newID).store
    /\ ret' = [ret EXCEPT ![p] = [err |-> Exchange(store, call[p].oldID, call[p].newID).err]]
    /\ pc' = [pc EXCEPT ![p] = "return"]
    /\ UNCHANGED <<mutex, call, entry, posted, deleted, decodes, writes>>

\* ---- the reading methods: the result is computed under the shared lock

ReadCall(p, c, result) ==
    /\ Enter(p, c, "return")
    /\ ret' = [ret EXCEPT ![p] = result]
    /\ UNCHANGED <<store, posted, deleted, decodes, writes>>

QueryCall(p) ==
    \E hash \in Hashes :
        ReadCall(p, [op |-> "Query", hash |-> hash], Query(store, hash))

HasCall(p) ==
    \E id \in IDs :
        ReadCall(p, [op |-> "Has", id |-> id], [val |-> Has(store, id)])

SizeCall(p) == ReadCall(p, [op |-> "Size"], [val |-> Size(store)])

ModifiedCall(p) == ReadCall(p, [op |-> "Modified"], [val |-> Modified(store)])

IDsCall(p) == ReadCall(p, [op |-> "IDs"], [val |-> StoreIDs(store)])

GobEncodeCall(p) == ReadCall(p, [op |-> "GobEncode"], [val |-> GobEncode(store), err |-> Nil])

\* ---- GobDecode

GobDecodeCall(p) ==
    \E from \in Inputs :
        /\ decodes < MaxDecodes
        /\ decodes' = decodes + 1
        /\ Enter(p, [op |-> "GobDecode", from |-> from], "GobDecode")
        /\ UNCHANGED <<store, ret, posted, deleted, writes>>

GobDecodeStep(p) ==
    /\ pc[p] = "GobDecode"
    /\ store' = GobDecode(store, call[p].from).store
    /\ ret' = [ret EXCEPT ![p] = [err |-> GobDecode(store, call[p].from).err]]
    /\ posted' = [i \in 1 .. Len(store'.candidates) |-> NoRet]
    /\ pc' = [pc EXCEPT ![p] = "return"]
    /\ UNCHANGED <<mutex, call, entry, deleted, decodes, writes>>

Next ==
    \E p \in Procs :
        \/ AddCall(p)
        \/ AddCheck(p)
        \/ AddIDStep(p)
        \/ AddBucketsStep(p)
        \/ AddModifiedStep(p)
        \/ DeleteCall(p)
        \/ DeleteCheck(p)
        \/ DeleteBucketsStep(p)
        \/ ExchangeCall(p)
        \/ ExchangeStep(p)
        \/ QueryCall(p)
        \/ HasCall(p)
        \/ SizeCall(p)
        \/ ModifiedCall(p)
        \/ IDsCall(p)
        \/ GobEncodeCall(p)
        \/ Return(p)

\* The store as it lives through Add, Delete, Exchange and the reading methods.
Spec == Init /\ [][Next]_vars

NextGob ==
    \/ Next
    \/ \E p \in Procs : GobDecodeCall(p) \/ GobDecodeStep(p)

\* The same, with GobDecode called on the store at any time.
SpecGob == Init /\ [][NextGob]_vars

\* ------------------------------------------------------------ functions

\* The largest absolute score of the matches handed to Less.
MaxScore == 1

\* The largest length of the lists handed to Less and coefThreshold.
MaxLen == 3

\* The largest absolute value of the coefficients handed to coefThreshold.
MaxCoef == 1

\* The largest image width and height handed to the ratio of CreateHash.
MaxDim == 3

\* A Match with a score, as Query builds it.
ScoredMatch(score) ==
    [ID |-> "imgA", Score |-> score, RatioDiff |-> 0, DHashDistance |-> 0,
     HistogramDistance |-> 0]

\* The lists of matches, nil entries included, of a given length.
MatchLists(n) ==
    [1 .. n -> {NilMatch} \cup {ScoredMatch(score) : score \in (0 - MaxScore) .. MaxScore}]

\* Matches.Less with i and j scored but m[i] not tested for nil.
LessScoreOnly(m, i, j) ==
    /\ m[i + 1] # NilMatch
    /\ m[j + 1] # NilMatch
    /\ m[i + 1].Score < m[j + 1].Score

\* Matches.Less: i and j are 0-based indices into m.
Less(m, i, j) ==
    \/ m[j + 1] = NilMatch
    \/ (m[i + 1] # NilMatch /\ m[i + 1].Score < m[j + 1].Score)

\* A function of the package is called on its own, by one goroutine at a
\* time, and its result is kept until the caller has taken it.
AllIdle == \A q \in Procs : pc[q] = "idle"

FunReturn(p) ==
    /\ pc[p] = "done"
    /\ pc' = [pc EXCEPT ![p] = "idle"]
    /\ call' = [call EXCEPT ![p] = NoCall]
    /\ ret' = [ret EXCEPT ![p] = NoRet]
    /\ UNCHANGED <<store, mutex, entry, posted, deleted, decodes, writes>>

LessCall(p) ==
    /\ AllIdle
    /\ \E n \in 1 .. MaxLen :
           \E m \in MatchLists(n), i \in 0 .. (n - 1), j \in 0 .. (n - 1) :
               /\ pc' = [pc EXCEPT ![p] = "done"]
               /\ call' = [call EXCEPT ![p] = [op |-> "Less", m |-> m, i |-> i, j |-> j]]
               /\ ret' = [ret EXCEPT ![p] = [val |-> Less(m, i, j)]]
               /\ UNCHANGED <<store, mutex, entry, posted, deleted, decodes, writes>>

\* The lists of coefficients of one channel, of a given length.
CoefLists(n) == [1 .. n -> {<<v>> : v \in (0 - MaxCoef) .. MaxCoef}]

\* coefThreshold is called with a list of at least k coefficients.
ThresholdCall(p) ==
    /\ AllIdle
    /\ \E n \in 1 .. MaxLen :
           \E coefs \in CoefLists(n), k \in 1 .. n :
               \E run \in coefThresholdRuns(AbsColumn(coefs, 1), k) :
                   /\ pc' = [pc EXCEPT ![p] = "done"]
                   /\ call' = [call EXCEPT ![p] = [op |-> "coefThreshold", coefs |-> coefs, k |-> k]]
                   /\ ret' = [ret EXCEPT ![p] = run]
                   /\ UNCHANGED <<store, mutex, entry, posted, deleted, decodes, writes>>

\* The coefficients of TestQuickSelect, in tenths.
TestCoefs ==
    << <<10, -50, 0>>, <<20, 20, 0>>, <<30, -75, 0>>, <<40, 10, 0>>,
       <<50, 0, 0>>, <<60, 60, 0>>, <<70, -30, 0>>, <<80, -90, 0>>,
       <<90, 47, 0>>, <<100, 47, 0>>, <<110, 80, 0>>, <<120, -22, 0>> >>

\* The lists coefThresholds is called with, each with its k: the empty
\* list, the list of the test and the coefficients of the images.
ThresholdsInputs ==
    {[coefs |-> <<>>, k |-> TopCoefs], [coefs |-> TestCoefs, k |-> 4]}
    \cup {[coefs |-> MatrixAsSeq(ImageCoefs(name)), k |-> TopCoefs] : name \in ImageNames}

ThresholdsCall(p) ==
    /\ AllIdle
    /\ \E in \in ThresholdsInputs :
           \E t1 \in coefThresholds(in.coefs, in.k)[1],
              t2 \in coefThresholds(in.coefs, in.k)[2],
              t3 \in coefThresholds(in.coefs, in.k)[3] :
               /\ pc' = [pc EXCEPT ![p] = "done"]
               /\ call' = [call EXCEPT ![p] = [op |-> "coefThresholds", coefs |-> in.coefs, k |-> in.k]]
               /\ ret' = [ret EXCEPT ![p] = [val |-> <<t1, t2, t3>>]]
               /\ UNCHANGED <<store, mutex, entry, posted, deleted, decodes, writes>>

\* The greatest common divisor of two naturals, not both zero.
RECURSIVE GCD(_, _)
GCD(a, b) == IF b = 0 THEN a ELSE GCD(b, a % b)

\* The quotient a / b of two naturals, b > 0, as a fraction in lowest terms.
Quotient(a, b) == <<a \div GCD(a, b), b \div GCD(a, b)>>

\* The ratio of CreateHash with the division the other way round.
RatioInverted(width, height) ==
    IF width > 0 THEN Quotient(height, width) ELSE <<0, 1>>

\* The ratio CreateHash computes from the bounds of the image: the zero
\* value of the variable unless the height is positive.
Ratio(width, height) ==
    IF height > 0 THEN Quotient(width, height) ELSE <<0, 1>>

RatioCall(p) ==
    /\ AllIdle
    /\ \E width \in 0 .. MaxDim, height \in 0 .. MaxDim :
           /\ pc' = [pc EXCEPT ![p] = "done"]
           /\ call' = [call EXCEPT ![p] = [op |-> "Ratio", width |-> width, height |-> height]]
           /\ ret' = [ret EXCEPT ![p] = [val |-> Ratio(width, height)]]
           /\ UNCHANGED <<store, mutex, entry, posted, deleted, decodes, writes>>

\* ------------------------------------------------------------ package haar

\* The values of the transform are the numbers (a + b * Sqrt2) / 2^k, kept
\* exactly as <<a, b, k>> with the smallest k.
RECURSIVE Pow2(_)
Pow2(n) == IF n = 0 THEN 1 ELSE 2 * Pow2(n - 1)

RECURSIVE Normal(_)
Normal(x) ==
    IF x[3] > 0 /\ x[1] % 2 = 0 /\ x[2] % 2 = 0
    THEN Normal(<<x[1] \div 2, x[2] \div 2, x[3] - 1>>)
    ELSE x

Number(n) == <<n, 0, 0>>

Plus(x, y) ==
    LET k == IF x[3] > y[3] THEN x[3] ELSE y[3]
    IN  Normal(<<x[1] * Pow2(k - x[3]) + y[1] * Pow2(k - y[3]),
                 x[2] * Pow2(k - x[3]) + y[2] * Pow2(k - y[3]), k>>)

Minus(x, y) == Plus(x, <<0 - y[1], 0 - y[2], y[3]>>)

\* x / Sqrt2 = (2b + a * Sqrt2) / 2^(k+1).
OverSqrt2(x) == Normal(<<2 * x[2], x[1], x[3] + 1>>)

\* Coef.Add, Coef.Subtract and Coef.Divide by Sqrt2, channel by channel.
CoefAdd(coef, offset) == [n \in 1 .. Len(coef) |-> Plus(coef[n], offset[n])]

CoefSubtract(coef, offset) == [n \in 1 .. Len(coef) |-> Minus(coef[n], offset[n])]

\* Coef.Divide that leaves the coefficient as it is.
CoefDivideByOne(coef) == coef

CoefDivide(coef) == [n \in 1 .. Len(coef) |-> OverSqrt2(coef[n])]

\* colorToCoef of a color.Gray.
colorToCoef(gray) == <<Number(gray)>>

\* One pass over a row or a column: sums of the pairs in the first step
\* places, differences in the next step places, the rest as it was.
HaarStep(line, step) ==
    [c \in 1 .. Len(line) |->
        IF c <= step
        THEN CoefDivide(CoefAdd(line[2 * c - 1], line[2 * c]))
        ELSE IF c <= 2 * step
             THEN CoefDivide(CoefSubtract(line[2 * (c - step) - 1], line[2 * (c - step)]))
             ELSE line[c]]

\* The passes of a row or a column, the step halved down to 1.
RECURSIVE Haar1D(_, _)
Haar1D(line, step) ==
    IF step >= 1 THEN Haar1D(HaarStep(line, step), step \div 2) ELSE line

\* width &^ 1 for a width above 2.
EvenSize(size) == IF size > 2 THEN size - (size % 2) ELSE size

\* haar.Transform of a gray image [Width, Height, Pix], Pix row by row.
Transform(img) ==
    LET width == EvenSize(img.Width)
        height == EvenSize(img.Height)
        coefs == [i \in 1 .. width * height |->
                     colorToCoef(img.Pix[((i - 1) \div width) * img.Width
                                         + ((i - 1) % width) + 1])]
        rows == [row \in 0 .. (height - 1) |->
                    Haar1D([column \in 1 .. width |-> coefs[row * width + column]],
                           width \div 2)]
        afterRows == [i \in 1 .. width * height |->
                         rows[(i - 1) \div width][((i - 1) % width) + 1]]
        columns == [column \in 0 .. (width - 1) |->
                       Haar1D([row \in 1 .. height |->
                                  afterRows[(row - 1) * width + column + 1]],
                              height \div 2)]
    IN  [Coefs |-> [i \in 1 .. width * height |->
                       columns[(i - 1) % width][((i - 1) \div width) + 1]],
         Width |-> width, Height |-> height]

\* The gray values of the images handed to Transform.
GrayValues == {2, 4, 5}

\* The image of the 4 x 4 test: the values 1 .. 16 row by row.
Image4x4 == [Width |-> 4, Height |-> 4, Pix |-> [i \in 1 .. 16 |-> i]]

\* The images handed to Transform: every image of up to four pixels in a
\* row or in a column or of 2 x 2 pixels, the 4 x 4 test image, and the
\* images of one gray value of width and height 1, 2, 4 or 6.
Images ==
    {Image4x4}
    \cup { [Width |-> w, Height |-> h, Pix |-> [i \in 1 .. w * h |-> v]] :
               w \in {1, 2, 4, 6}, h \in {1, 2, 4, 6}, v \in {1, 2} }
    \cup UNION { UNION { { [Width |-> n, Height |-> 1, Pix |-> pix],
                           [Width |-> 1, Height |-> n, Pix |-> pix] }
                         : pix \in [1 .. n -> GrayValues] }
                 : n \in 1 .. 4 }
    \cup { [Width |-> 2, Height |-> 2, Pix |-> pix] : pix \in [1 .. 4 -> GrayValues] }

TransformCall(p) ==
    /\ AllIdle
    /\ \E img \in Images :
           /\ pc' = [pc EXCEPT ![p] = "done"]
           /\ call' = [call EXCEPT ![p] = [op |-> "Transform", img |-> img]]
           /\ ret' = [ret EXCEPT ![p] = [val |-> Transform(img)]]
           /\ UNCHANGED <<store, mutex, entry, posted, deleted, decodes, writes>>

\* ------------------------------------------------------------ fingerprints

\* The 8-bit colour values of the pixels handed to dHash and histogram.
ByteValues == {0, 100, 128, 200, 255}

\* A pixel in the YCbCr colour space.
YCbCr(y, cb, cr) == [Y |-> y, Cb |-> cb, Cr |-> cr]

\* ycbcr for a colour that is a color.YCbCr already.
ycbcr(colour) == <<colour.Y, colour.Cb, colour.Cr>>

\* uint8 arithmetic: a sum of two bytes keeps its low eight bits.
Uint8(n) == n % 256

\* (a + b) >> 1 on uint8 values.
HalfSum(a, b) == Uint8(a + b) \div 2

\* v & 0x80 > 0.
TopBit(v) == (v \div 128) % 2 = 1

\* The width and height of the image dHash scans.
ScaledSize == 8

\* The images dHash scans after resizing (the resizing itself is the work of
\* another package): 2 x 2 tiles of byte values repeated over 8 x 8 pixels.
ScaledImages ==
    { [x \in 0 .. (ScaledSize - 1), y \in 0 .. (ScaledSize - 1) |->
           LET v == tile[(x % 2) + 2 * (y % 2) + 1] IN YCbCr(v, v, 255 - v)]
      : tile \in [1 .. 4 -> ByteValues] }

\* The value of channel n (1 for Y, 2 for Cb, 3 for Cr) of the pixel (x, y).
ChannelAt(scaled, n, x, y) == LET values == ycbcr(scaled[x, y]) IN values[n]

\* The test of dHash for the Y bit of the pixel (x, y).
yBit(scaled, x, y) ==
    IF x = 0 THEN TopBit(ChannelAt(scaled, 1, x, y))
    ELSE ChannelAt(scaled, 1, x, y) > ChannelAt(scaled, 1, x - 1, y)

\* The tests of dHash for the Cb (n = 2) and the Cr (n = 3) bit of the pixel
\* (x, y), made on the even rows only.
chromaBit(scaled, n, x, y) ==
    IF y % 2 # 0 THEN FALSE
    ELSE IF x = 0
         THEN TopBit(HalfSum(ChannelAt(scaled, n, x, y + 1), ChannelAt(scaled, n, x, y)))
         ELSE HalfSum(ChannelAt(scaled, n, x, y + 1), ChannelAt(scaled, n, x, y))
                  > HalfSum(ChannelAt(scaled, n, x - 1, y + 1), ChannelAt(scaled, n, x - 1, y))

\* The pixels of the scan in its order, row by row, numbered from 0.
ScanCells == (0 .. (ScaledSize - 1)) \X (0 .. (ScaledSize - 1))

ScanIndex(cell) == cell[2] * ScaledSize + cell[1]

\* The bit numbers written for the pixels of cells, from position start on:
\* the position is incremented with every bit written and only then, so a
\* pixel's bit is written at start plus the number of bits written before it.
BitsWritten(cells, start) ==
    {start + Cardinality({before \in cells : ScanIndex(before) < ScanIndex(cell)}) : cell \in cells}

\* The scan of dHash: the two words as sets of bit numbers, and the pixels at
\* which a Cb and a Cr bit were written.
dHashScan(scaled) ==
    LET yCells == {cell \in ScanCells : yBit(scaled, cell[1], cell[2])}
        cbCells == {cell \in ScanCells : chromaBit(scaled, 2, cell[1], cell[2])}
        crCells == {cell \in ScanCells : chromaBit(scaled, 3, cell[1], cell[2])}
    IN  [bits |-> <<BitsWritten(yCells, 0), BitsWritten(cbCells, 0) \cup BitsWritten(crCells, 32)>>,
         cbCells |-> cbCells, crCells |-> crCells]

\* dHash of the resized image.
dHash(scaled) == LET scan == dHashScan(scaled) IN scan.bits

DHashCall(p) ==
    /\ AllIdle
    /\ \E scaled \in ScaledImages :
           LET scan == dHashScan(scaled)
           IN  /\ pc' = [pc EXCEPT ![p] = "done"]
               /\ call' = [call EXCEPT ![p] = [op |-> "dHash", img |-> scaled]]
               /\ ret' = [ret EXCEPT ![p] = [val |-> scan.bits, cbCells |-> scan.cbCells,
                                             crCells |-> scan.crCells]]
               /\ UNCHANGED <<store, mutex, entry, posted, deleted, decodes, writes>>

\* The number of bins of the histogram: 32 for Y, 16 for Cb, 16 for Cr.
HistogramBins == 64

\* An image whose Y and Cb values lie in sixteen bins, four of them twice.
GradientImage ==
    [i \in 1 .. 20 |-> LET v == 16 * ((i - 1) % 16) IN YCbCr(v, v, 255 - v)]

\* The images handed to histogram, as the sequence of their pixels: one or
\* two pixels of the byte values, and the gradient.
HistogramImages ==
    {GradientImage}
    \cup UNION { { [i \in 1 .. n |-> YCbCr(v[i], v[i], 255 - v[i])] : v \in [1 .. n -> ByteValues] }
                 : n \in 1 .. 2 }

\* The bins a pixel is counted in.
BinsOf(colour) ==
    LET values == ycbcr(colour)
    IN  <<values[1] \div 8, 32 + (values[2] \div 16), 48 + (values[3] \div 16)>>

\* The counts h of histogram after the loop over the pixels.
histogramCounts(pix) ==
    [index \in 0 .. (HistogramBins - 1) |->
        LET Hits(n) == Cardinality({i \in 1 .. Len(pix) : BinsOf(pix[i])[n] = index})
        IN  Hits(1) + Hits(2) + Hits(3)]

\* sorted[at] for the bins from .. (to - 1) of h sorted by count.
SortedAt(h, from, to, at) ==
    CHOOSE count \in {h[index] : index \in from .. (to - 1)} :
        /\ Cardinality({index \in from .. (to - 1) : h[index] < count}) <= at
        /\ Cardinality({index \in from .. (to - 1) : h[index] <= count}) > at

\* The closure median of histogram for the bins from .. (to - 1): the median
\* count, and the largest count over the number of pixels as a fraction.
median(h, from, to, pixels) ==
    [median |-> SortedAt(h, from, to, (to - from) \div 2),
     max |-> <<SortedAt(h, from, to, (to - from) - 1), pixels>>]

\* The last loop of histogram: the bits as a set of bit numbers.
quantize(h, my, mcb, mcr) ==
    {index \in 0 .. 31 : h[index] > my}
    \cup {index - 32 : index \in {index \in 32 .. 47 : h[index] > mcb}}
    \cup {index - 32 : index \in {index \in 48 .. 63 : h[index] > mcr}}

\* histogram of an image given by its pixels.
histogram(pix) ==
    LET h == histogramCounts(pix)
        y == median(h, 0, 32, Len(pix))
        cb == median(h, 32, 48, Len(pix))
        cr == median(h, 48, 64, Len(pix))
    IN  [bits |-> quantize(h, y.median, cb.median, cr.median),
         histoMax |-> <<y.max, cb.max, cr.max>>]

HistogramCall(p) ==
    /\ AllIdle
    /\ \E pix \in HistogramImages :
           LET result == histogram(pix)
           IN  /\ pc' = [pc EXCEPT ![p] = "done"]
               /\ call' = [call EXCEPT ![p] = [op |-> "histogram", img |-> pix]]
               /\ ret' = [ret EXCEPT ![p] = [val |-> result.bits, histoMax |-> result.histoMax]]
               /\ UNCHANGED <<store, mutex, entry, posted, deleted, decodes, writes>>

NextFun ==
    \E p \in Procs :
        \/ LessCall(p)
        \/ ThresholdCall(p)
        \/ ThresholdsCall(p)
        \/ RatioCall(p)
        \/ TransformCall(p)
        \/ DHashCall(p)
        \/ HistogramCall(p)
        \/ FunReturn(p)

SpecFun == Init /\ [][NextFun]_vars

\* ------------------------------------------------------------ properties

\* Goroutine p is about to return from a call of method op; it still holds
\* the lock.
InRet(p, op) == pc[p] = "return" /\ call[p].op = op

Inside(p) == pc[p] # "idle"

WriterOps == {"Add", "Delete", "Exchange", "GobDecode"}

\* The slots that appear in some bucket of a store.
IndexedSlots(st) ==
    { st.indices[s][p][c][k] :
        <<s, p, c, k>> \in { x \in Signs \X Positions \X (1 .. ColourChannels) \X (0 .. MaxSize + 1) :
                               /\ x[3] <= Len(st.indices[x[1]][x[2]])
                               /\ x[4] >= 1
                               /\ x[4] <= Len(st.indices[x[1]][x[2]][x[3]]) } }

\* The ids of the matches of a query result, as a list.
MatchIDs(result) == [k \in 1 .. Len(result.matches) |-> result.matches[k].ID]

MatchIDSet(result) == {MatchIDs(result)[k] : k \in 1 .. Len(result.matches)}

Count(seq, v) == Cardinality({k \in 1 .. Len(seq) : seq[k] = v})

\* C1: once Add(id, h) has completed for an id that was not present, a
\* Query(h) that starts while id is still on that slot returns exactly one
\* Match whose ID is id.
C1_AddThenQueryFindsId ==
    \A p \in Procs :
        InRet(p, "Query") =>
            \A id \in DOMAIN store.ids :
                (/\ store.ids[id] < Len(posted)
                 /\ posted[store.ids[id] + 1] = call[p].hash)
                => /\ ~ret[p].panic
                   /\ Count(MatchIDs(ret[p]), id) = 1

\* A query with the hash an id was added with returns; another image is in
\* the store and matched as well.
C1_Witness ==
    \E p \in Procs :
        /\ InRet(p, "Query")
        /\ Len(ret[p].matches) = 2
        /\ \E id \in DOMAIN store.ids :
              /\ store.ids[id] = 1
              /\ posted[2] = call[p].hash
              /\ Count(MatchIDs(ret[p]), id) = 1

\* C2: Add of an id that is already present leaves the whole store as it
\* was (candidates, id map, buckets, hence Size() and Modified()), whatever
\* hash is passed.
C2_AddPresentIsNoOp ==
    \A p \in Procs :
        (/\ Inside(p)
         /\ call[p].op = "Add"
         /\ call[p].id \in DOMAIN entry[p].ids)
        => /\ store = entry[p]
           /\ Size(store) = Size(entry[p])
           /\ Modified(store) = Modified(entry[p])
           /\ pc[p] \in {"Add", "return"}

\* Add returns for an id that was present, called with another hash than
\* the one the id was added with.
C2_Witness ==
    \E p \in Procs :
        /\ InRet(p, "Add")
        /\ call[p].id \in DOMAIN entry[p].ids
        /\ entry[p].ids[call[p].id] < Len(posted)
        /\ posted[entry[p].ids[call[p].id] + 1] # call[p].hash

\* The matches of a result without those of one id.
WithoutID(result, id) ==
    LET Other(m) == m.ID # id
    IN  SelectSeq(result.matches, Other)

\* C3: after Delete(id) of a present id, Has(id) is false, IDs() does not
\* contain id, no bucket holds the deleted slot, every query returns what it
\* returned before less the match of id, and every other id is on its slot;
\* Delete of an id that is not present changes nothing.  Every query
\* returns matches of present ids only.
C3_Delete ==
    /\ \A p \in Procs :
          InRet(p, "Delete") =>
              IF call[p].id \in DOMAIN entry[p].ids
              THEN /\ ~Has(store, call[p].id)
                   /\ call[p].id \notin StoreIDs(store)
                   /\ entry[p].ids[call[p].id] \notin IndexedSlots(store)
                   /\ \A h \in Hashes :
                         /\ ~Query(store, h).panic
                         /\ Query(store, h).matches = WithoutID(Query(entry[p], h), call[p].id)
                   /\ \A other \in (DOMAIN entry[p].ids) \ {call[p].id} :
                         /\ Has(store, other)
                         /\ store.ids[other] = entry[p].ids[other]
              ELSE store = entry[p]
    /\ \A p \in Procs :
          InRet(p, "Query") => MatchIDSet(ret[p]) \subseteq DOMAIN store.ids

\* Delete returns after removing an id that a query matched, another id stays.
C3_Witness ==
    \E p \in Procs :
        /\ InRet(p, "Delete")
        /\ call[p].id \in DOMAIN entry[p].ids
        /\ DOMAIN store.ids # {}
        /\ \E h \in Hashes :
              /\ Count(MatchIDs(Query(entry[p], h)), call[p].id) = 1
              /\ Len(Query(store, h).matches) = 1

\* C4: Exchange(oldId, newId) with both ids present returns an error and
\* leaves the id map, the candidates and the buckets as they were.
C4_ExchangeCollision ==
    \A p \in Procs :
        (/\ InRet(p, "Exchange")
         /\ call[p].oldID \in DOMAIN entry[p].ids
         /\ call[p].newID \in DOMAIN entry[p].ids)
        => /\ ret[p].err # Nil
           /\ store.ids = entry[p].ids
           /\ store.candidates = entry[p].candidates
           /\ store.indices = entry[p].indices
           /\ Has(store, call[p].oldID)
           /\ Has(store, call[p].newID)

\* Exchange returns with an error for two different present ids.
C4_Witness ==
    \E p \in Procs :
        /\ InRet(p, "Exchange")
        /\ call[p].oldID \in DOMAIN entry[p].ids
        /\ call[p].newID \in DOMAIN entry[p].ids
        /\ call[p].oldID # call[p].newID
        /\ ret[p].err # Nil

\* C5: Exchange(oldId, newId) with oldId not present returns no error and
\* changes nothing, whether or not newId is present.
C5_ExchangeMissing ==
    \A p \in Procs :
        (/\ InRet(p, "Exchange")
         /\ call[p].oldID \notin DOMAIN entry[p].ids)
        => /\ ret[p].err = Nil
           /\ store = entry[p]

\* Exchange returns for a missing oldId and a present newId.
C5_Witness ==
    \E p \in Procs :
        /\ InRet(p, "Exchange")
        /\ call[p].oldID \notin DOMAIN entry[p].ids
        /\ call[p].newID \in DOMAIN entry[p].ids
        /\ ret[p].err = Nil

\* C6: Exchange(oldId, newId) with oldId present and newId absent returns
\* no error; oldId is absent, newId is on the slot oldId had and the
\* candidate of the slot has id newId; the number of ids, Size(), the slots
\* of the other ids, the other candidates and every bucket are unchanged.
C6_ExchangeRenames ==
    \A p \in Procs :
        (/\ InRet(p, "Exchange")
         /\ call[p].oldID \in DOMAIN entry[p].ids
         /\ call[p].newID \notin DOMAIN entry[p].ids)
        => LET slot == entry[p].ids[call[p].oldID]
           IN  /\ ret[p].err = Nil
               /\ ~Has(store, call[p].oldID)
               /\ Has(store, call[p].newID)
               /\ store.ids[call[p].newID] = slot
               /\ store.candidates[slot + 1].id = call[p].newID
               /\ Cardinality(DOMAIN store.ids) = Cardinality(DOMAIN entry[p].ids)
               /\ Size(store) = Size(entry[p])
               /\ \A other \in (DOMAIN entry[p].ids) \ {call[p].oldID} :
                     Has(store, other) /\ store.ids[other] = entry[p].ids[other]
               /\ \A i \in 1 .. Len(entry[p].candidates) :
                     i # slot + 1 => store.candidates[i] = entry[p].candidates[i]
               /\ store.indices = entry[p].indices

\* Exchange has renamed an id while another id is present.
C6_Witness ==
    \E p \in Procs :
        /\ InRet(p, "Exchange")
        /\ call[p].oldID \in DOMAIN entry[p].ids
        /\ call[p].newID \notin DOMAIN entry[p].ids
        /\ Cardinality(DOMAIN store.ids) = 2
        /\ Has(store, call[p].newID)

\* C7: the bytes GobEncode returns for a store reached by Add, Delete and
\* Exchange decode without error into an empty store, and give the same
\* candidates in the same order, the same id map and the same buckets.
C7_GobRoundTrip ==
    \A p \in Procs :
        InRet(p, "GobEncode") =>
            LET decoded == GobDecode(New, ret[p].val)
            IN  /\ ret[p].err = Nil
                /\ decoded.err = Nil
                /\ decoded.store.candidates = store.candidates
                /\ decoded.store.ids = store.ids
                /\ decoded.store.indices = store.indices

\* GobEncode returns for a store of two slots, one of them deleted, the
\* other indexed.
C7_Witness ==
    \E p \in Procs :
        /\ InRet(p, "GobEncode")
        /\ Len(store.candidates) = 2
        /\ store.candidates[1].id = Nil
        /\ 1 \in IndexedSlots(store)
        /\ GobDecode(New, ret[p].val).store.candidates = store.candidates

\* C8: while Add, Delete, Exchange or GobDecode is inside its critical
\* section no other method is inside its own; the reading methods overlap
\* only with each other, and the store does not change under a reader.
C8_MutualExclusion ==
    \A p \in Procs :
        /\ (Inside(p) /\ call[p].op \in WriterOps)
              => \A q \in Procs \ {p} : ~Inside(q)
        /\ (Inside(p) /\ call[p].op \notin WriterOps) => store = entry[p]

\* After a GobDecode, two readers are inside their critical sections.
C8_Witness ==
    /\ decodes = 1
    /\ \E p, q \in Procs :
          /\ InRet(p, "Query")
          /\ InRet(q, "GobEncode")

C10_WritesSetModified(p) ==
    /\ (/\ pc[p] = "return"
        /\ ret[p] = NoRet \/ call[p].op = "Exchange"
        /\ \/ call[p].op = "Add" /\ call[p].id \notin DOMAIN entry[p].ids
           \/ call[p].op = "Delete" /\ call[p].id \in DOMAIN entry[p].ids
           \/ /\ call[p].op = "Exchange"
              /\ call[p].oldID \in DOMAIN entry[p].ids
              /\ call[p].newID \notin DOMAIN entry[p].ids
              /\ ret[p].err = Nil)
       => Modified(store)
    /\ (/\ pc[p] = "return"
        /\ \/ call[p].op = "Add" /\ call[p].id \in DOMAIN entry[p].ids
           \/ call[p].op = "Delete" /\ call[p].id \notin DOMAIN entry[p].ids
           \/ call[p].op = "Exchange" /\ call[p].oldID \notin DOMAIN entry[p].ids
           \/ call[p].op = "Exchange" /\ ret[p].err # Nil
           \/ call[p].op \in {"Has", "Size", "IDs", "Query", "Modified", "GobEncode"})
       => Modified(store) = Modified(entry[p])

\* C10: Modified() is true iff the store was mutated since it was created
\* or last loaded: false after New and after a GobDecode that succeeded,
\* true after an Add of a new id, a Delete of a present id or a successful
\* Exchange; calls that change nothing and the reading methods leave it.
C10_ModifiedIffMutated ==
    /\ ~Modified(New)
    /\ \A p \in Procs :
          /\ (InRet(p, "GobDecode") /\ ret[p].err = Nil) => ~Modified(store)
          /\ (InRet(p, "Modified") /\ decodes = 0) => (ret[p].val <=> (posted # <<>>))
          /\ C10_WritesSetModified(p)

\* The scores of the matches of a query result, as a list.
MatchScores(result) == [k \in 1 .. Len(result.matches) |-> result.matches[k].Score]

\* C11: Query returns its matches sorted by score, the lowest score first:
\* element 0 of the result is the best match.
C11_QueryResultSorted ==
    \A p \in Procs :
        InRet(p, "Query") =>
            \A k \in 1 .. (Len(ret[p].matches) - 1) :
                MatchScores(ret[p])[k] <= MatchScores(ret[p])[k + 1]

\* Goroutine p has the result of a call of the function op.
Done(p, op) == pc[p] = "done" /\ call[p].op = op

\* C12: Less(i, j) is true when m[i] is a match and m[j] is nil, false when
\* m[i] is nil and m[j] is a match, and for two matches true exactly when
\* the score of m[i] is lower than the score of m[j].
C12_LessRanksNilLast ==
    \A p \in Procs :
        Done(p, "Less") =>
            LET a == call[p].m[call[p].i + 1]
                b == call[p].m[call[p].j + 1]
            IN  /\ (a # NilMatch /\ b = NilMatch) => ret[p].val
                /\ (a = NilMatch /\ b # NilMatch) => ~ret[p].val
                /\ (a # NilMatch /\ b # NilMatch) => (ret[p].val <=> a.Score < b.Score)

\* Less has answered TRUE for a match against a nil entry.
C12_Witness ==
    \E p \in Procs :
        /\ Done(p, "Less")
        /\ call[p].m[call[p].i + 1] # NilMatch
        /\ call[p].m[call[p].j + 1] = NilMatch
        /\ ret[p].val

\* The number of coefficients of a list that survive a threshold.
Survivors(coefs, t) == Cardinality({i \in 1 .. Len(coefs) : Abs(coefs[i][1]) >= t})

\* C13: discarding the coefficients whose absolute value is below the
\* threshold leaves exactly k coefficients, for every list of at least k.
C13_ThresholdKeepsExactlyK ==
    \A p \in Procs :
        Done(p, "coefThreshold") => Survivors(call[p].coefs, ret[p].val) = call[p].k

\* C14: the ratio is width / height when the height is positive and 0 when
\* the height is 0; it is 0 exactly when the height or the width is 0.
C14_Ratio ==
    \A p \in Procs :
        Done(p, "Ratio") =>
            LET width == call[p].width
                height == call[p].height
                r == ret[p].val
            IN  /\ r[2] > 0
                /\ GCD(r[1], r[2]) = 1
                /\ height > 0 => r[1] * height = width * r[2]
                /\ height = 0 => r[1] = 0
                /\ r[1] = 0 <=> (height = 0 \/ width = 0)

\* The ratio of an image of width 0 and positive height has been computed.
C14_Witness ==
    \E p \in Procs :
        /\ Done(p, "Ratio")
        /\ call[p].width = 0
        /\ call[p].height > 0
        /\ ret[p].val[1] = 0

\* C14 as stated: the ratio is width / height, and it is 0 exactly when the
\* height is 0.
C14_RatioZeroIffHeightZero ==
    \A p \in Procs :
        Done(p, "Ratio") =>
            /\ call[p].height > 0 =>
                   ret[p].val[1] * call[p].height = call[p].width * ret[p].val[2]
            /\ ret[p].val[1] = 0 <=> call[p].height = 0

\* The coefficients of a matrix of one channel, as a list of numbers.
Channel(matrix) == [i \in 1 .. Len(matrix.Coefs) |-> matrix.Coefs[i][1]]

\* The results of the three tests of the transform, Sqrt2 being <<0, 1, 0>>.
Expected4 == <<Number(8), Number(-2), <<0, 1, 0>>, Number(0)>>

Expected4x4 ==
    <<Number(34), Number(-4), <<0, -1, 0>>, <<0, -1, 0>>,
      Number(-16), Number(0), Number(0), Number(0),
      <<0, -4, 0>>, Number(0), Number(0), Number(0),
      <<0, -4, 0>>, Number(0), Number(0), Number(0)>>

\* C16: the transform applies the one-dimensional step to the rows and then
\* to the columns: the gray row 4, 2, 5, 5 becomes 8, -2, 2 / Sqrt2, 0, the
\* same values as a column become the same, and the 4 x 4 image of 1 .. 16
\* becomes the matrix of the test.
C16_TransformExamples ==
    \A p \in Procs :
        Done(p, "Transform") =>
            LET img == call[p].img
            IN  /\ (img.Pix = <<4, 2, 5, 5>> /\ img.Width \in {1, 4}) =>
                       /\ Channel(ret[p].val) = Expected4
                       /\ ret[p].val.Width = img.Width
                       /\ ret[p].val.Height = img.Height
                /\ img = Image4x4 =>
                       /\ Channel(ret[p].val) = Expected4x4
                       /\ ret[p].val.Width = 4
                       /\ ret[p].val.Height = 4

\* The 4 x 4 test image has been transformed.
C16_Witness ==
    \E p \in Procs :
        /\ Done(p, "Transform")
        /\ call[p].img = Image4x4
        /\ Len(ret[p].val.Coefs) = 16

\* Whether bucket (s, p, c) of a store lists slot i.
InBucket(st, s, p, c, i) ==
    /\ c <= Len(st.indices[s][p])
    /\ \E j \in 1 .. Len(st.indices[s][p][c]) : st.indices[s][p][c][j] = i

\* The bucket a coefficient of a hash is looked up in, if it is significant:
\* sign 1 for a negative coefficient, sign 0 otherwise.
Passes(hash, p, c) == Abs(hash.Coefs[p][c]) >= hash.Thresholds[c]

SignBit(hash, p, c) == IF hash.Coefs[p][c] < 0 THEN 1 ELSE 0

\* The slots a query with a hash must return: those listed in the bucket of
\* a significant coefficient at a position from 1 on.
HitSlots(st, hash) ==
    {i \in 0 .. (Len(st.candidates) - 1) :
        \E p \in Positions \ {0}, c \in 1 .. ColourChannels :
            Passes(hash, p, c) /\ InBucket(st, SignBit(hash, p, c), p, c, i)}

Uniform(hash) ==
    \A p \in Positions \ {0}, c \in 1 .. ColourChannels : hash.Coefs[p][c] = 0

\* Goroutine p returns from an Add that has inserted its image.
AddedNew(p) == InRet(p, "Add") /\ call[p].id \notin DOMAIN entry[p].ids

\* C19: when Add(id, h) assigns slot i, bucket (s, p, ch) with p >= 1 lists
\* i iff the coefficient passes the threshold of its channel and s is its
\* sign (1 if negative, 0 otherwise, zero included).  No bucket at position
\* 0 ever lists a slot.  For a uniform image every bucket of sign 0 at
\* p >= 1 lists the slot and no bucket of sign 1 does (all of them are
\* empty if the store was empty).
C19_AddPostsSignificantCoefs ==
    /\ \A s \in Signs, c \in 1 .. ColourChannels :
           c <= Len(store.indices[s][0]) => store.indices[s][0][c] = <<>>
    /\ \A q \in Procs :
           AddedNew(q) =>
               LET i == Len(entry[q].candidates)
                   hash == call[q].hash
               IN  /\ store.ids[call[q].id] = i
                   /\ \A s \in Signs, p \in Positions \ {0}, c \in 1 .. ColourChannels :
                          InBucket(store, s, p, c, i)
                              <=> (Passes(hash, p, c) /\ s = SignBit(hash, p, c))
                   /\ Uniform(hash) =>
                          \A p \in Positions \ {0}, c \in 1 .. ColourChannels :
                              /\ InBucket(store, 0, p, c, i)
                              /\ ~InBucket(store, 1, p, c, i)
                              /\ Len(entry[q].candidates) = 0 => store.indices[1][p][c] = <<>>

\* The uniform image has been added to a store that holds another image.
C19_Witness ==
    \E q \in Procs :
        /\ AddedNew(q)
        /\ Uniform(call[q].hash)
        /\ Len(entry[q].candidates) = 1
        /\ \A p \in Positions \ {0}, c \in 1 .. ColourChannels : InBucket(store, 0, p, c, 1)

\* The largest image scale the weight bins are compared for.
MaxScale == 7

\* The weight bin of a position for an image scale: min(max(p mod S, p div S), 5).
BinOf(p, scale) ==
    LET m == IF p % scale > p \div scale THEN p % scale ELSE p \div scale
    IN  IF m > 5 THEN 5 ELSE m

\* The sum of the weights of the three channels in a bin.
weightSums(b) == weights[1][b + 1] + weights[2][b + 1] + weights[3][b + 1]

\* The weighted distance of the first coefficients of a candidate and a hash.
ScaleDistance(cand, hash) ==
    weights[1][1] * Abs(cand.scaleCoef[1] - hash.Coefs[0][1])
        + weights[2][1] * Abs(cand.scaleCoef[2] - hash.Coefs[0][2])
        + weights[3][1] * Abs(cand.scaleCoef[3] - hash.Coefs[0][3])

\* The weight sums of the bucket hits of slot i among the first k pairs
\* (p, ch), p >= 1, one for every bucket of a significant coefficient of
\* the hash that lists i.
RECURSIVE HitSums(_, _, _, _)
HitSums(st, hash, i, k) ==
    IF k = 0 THEN 0
    ELSE LET p == 1 + ((k - 1) \div ColourChannels)
             c == 1 + ((k - 1) % ColourChannels)
         IN  (IF Passes(hash, p, c) /\ InBucket(st, SignBit(hash, p, c), p, c, i)
              THEN weightSums(BinOf(p, ImageScale)) ELSE 0)
             + HitSums(st, hash, i, k - 1)

ExpectedScore(st, hash, i) ==
    ScaleDistance(st.candidates[i + 1], hash)
        - HitSums(st, hash, i, (NumCoefs - 1) * ColourChannels)

\* The scores of a query result are the expected ones.
ScoresAsExpected(result, st, hash) ==
    \A k \in 1 .. Len(result.matches) :
        MatchScores(result)[k] = ExpectedScore(st, hash, st.ids[MatchIDs(result)[k]])

\* C20: the Score of the Match of slot i is the weighted distance of the
\* first (DC) coefficients minus weightSums[bin(p)] once for every pair
\* (p, ch), p >= 1, whose query coefficient is significant and whose bucket
\* lists i, with bin(p) = min(max(p mod S, p div S), 5) for a hash of width
\* and height S; bin(p) is in 1 .. 5, so column 0 of the weights is never
\* subtracted.
C20_ScoreFormula ==
    \A q \in Procs :
        InRet(q, "Query") =>
            /\ ScoresAsExpected(ret[q], store, call[q].hash)
            /\ \A scale \in 1 .. MaxScale, p \in 1 .. (MaxScale * MaxScale - 1) :
                   p < scale * scale =>
                       /\ Bin([Width |-> scale, Height |-> scale], p) = BinOf(p, scale)
                       /\ BinOf(p, scale) \in 1 .. 5

\* A query has returned a match that was hit in some buckets but not in
\* all the buckets of its significant coefficients.
C20_Witness ==
    \E q \in Procs :
        /\ InRet(q, "Query")
        /\ Len(ret[q].matches) = 2
        /\ \E k \in 1 .. 2 :
              /\ MatchScores(ret[q])[k] = ExpectedScore(store, call[q].hash, k - 1)
              /\ HitSums(store, call[q].hash, k - 1, (NumCoefs - 1) * ColourChannels) > 0
              /\ HitSums(store, call[q].hash, 2 - k, (NumCoefs - 1) * ColourChannels)
                     > HitSums(store, call[q].hash, k - 1, (NumCoefs - 1) * ColourChannels)

\* The id map and the candidates of a store agree.
IdsAgree(st) ==
    /\ \A id \in DOMAIN st.ids :
           /\ st.ids[id] < Size(st)
           /\ st.candidates[st.ids[id] + 1].id = id
    /\ \A a, b \in DOMAIN st.ids : st.ids[a] = st.ids[b] => a = b
    /\ \A i \in 1 .. Len(st.candidates) :
           st.candidates[i].id # Nil =>
               /\ st.candidates[i].id \in DOMAIN st.ids
               /\ st.ids[st.candidates[i].id] = i - 1

\* The part of C17 about Add, Delete and Exchange alone.
C17_AfterWrites == (~mutex.writer /\ decodes = 0) => IdsAgree(store)

\* The part of C17 about a GobDecode that has succeeded.
C17_AfterDecode ==
    \A p \in Procs :
        (InRet(p, "GobDecode") /\ ret[p].err = Nil) => IdsAgree(store)

\* C17: after any sequence of Add, Delete and Exchange, and after GobDecode
\* of an encoded store, the id map and the candidates agree: every id maps
\* to a slot below Size() whose candidate has that id, no two ids map to
\* the same slot, and every candidate with an id is the slot of its id.
C17_IdsAgreeWithCandidates == C17_AfterWrites /\ C17_AfterDecode

\* Slot i of a store holds a candidate with an id.
Live(st, i) == i < Size(st) /\ st.candidates[i + 1].id # Nil

\* No bucket lists a slot twice, and every slot listed is live.
BucketsSound(st) ==
    \A s \in Signs, p \in Positions :
        \A c \in 1 .. Len(st.indices[s][p]) :
            /\ \A j, k \in 1 .. Len(st.indices[s][p][c]) :
                   st.indices[s][p][c][j] = st.indices[s][p][c][k] => j = k
            /\ \A j \in 1 .. Len(st.indices[s][p][c]) : Live(st, st.indices[s][p][c][j])

\* The part of C18 about Add, Delete and Exchange alone.
C18_AfterWrites ==
    /\ (~mutex.writer /\ decodes = 0) => BucketsSound(store)
    /\ \A p \in Procs :
           (InRet(p, "Delete") /\ decodes = 0 /\ call[p].id \in DOMAIN entry[p].ids)
               => entry[p].ids[call[p].id] \notin IndexedSlots(store)

\* The part of C18 about a GobDecode that has succeeded.
C18_AfterDecode ==
    \A p \in Procs :
        (InRet(p, "GobDecode") /\ ret[p].err = Nil) => BucketsSound(store)

\* C18: in every reachable state, whenever no writer is inside the store,
\* each bucket lists a slot at most once and every slot it lists is below
\* Size() and has a candidate with an id; after Delete no bucket lists the
\* slot of the deleted id.
C18_BucketsListLiveSlots ==
    /\ ~mutex.writer => BucketsSound(store)
    /\ \A p \in Procs :
           (InRet(p, "Delete") /\ call[p].id \in DOMAIN entry[p].ids)
               => entry[p].ids[call[p].id] \notin IndexedSlots(store)

\* v is the k-th largest value of a list, ties counted with multiplicity:
\* fewer than k entries are above v and at least k are not below it.
IsKthLargest(vals, k, v) ==
    /\ \E i \in 1 .. Len(vals) : vals[i] = v
    /\ Cardinality({i \in 1 .. Len(vals) : vals[i] > v}) < k
    /\ Cardinality({i \in 1 .. Len(vals) : vals[i] >= v}) >= k

\* The absolute values of a channel of a list, computed on their own.
Magnitudes(coefs, n) ==
    [i \in 1 .. Len(coefs) |-> IF coefs[i][n] < 0 THEN 0 - coefs[i][n] ELSE coefs[i][n]]

\* C21: coefThreshold returns the k-th largest absolute value of the
\* channel over all positions, ties counted with multiplicity, for every
\* 1 <= k <= len(coefs); coefThresholds returns it per channel and the zero
\* Coef for an empty list; for the 12 coefficients of the test and k = 4
\* the thresholds are 9 and 6.
C21_KthLargestAbsoluteValue ==
    \A p \in Procs :
        /\ Done(p, "coefThreshold") =>
               IsKthLargest(Magnitudes(call[p].coefs, 1), call[p].k, ret[p].val)
        /\ Done(p, "coefThresholds") =>
               /\ call[p].coefs = <<>> => ret[p].val = <<0, 0, 0>>
               /\ call[p].coefs # <<>> =>
                      \A n \in 1 .. ColourChannels :
                          IsKthLargest(Magnitudes(call[p].coefs, n), call[p].k, ret[p].val[n])
               /\ call[p].coefs = TestCoefs =>
                      (ret[p].val[1] = 90 /\ ret[p].val[2] = 60)

\* coefThresholds has returned the thresholds of the 12 test coefficients.
C21_Witness ==
    \E p \in Procs :
        /\ Done(p, "coefThresholds")
        /\ call[p].coefs = TestCoefs
        /\ ret[p].val = <<90, 60, 0>>

\* Every run of coefThreshold on a list ends after at most one call per
\* entry, without calling rand.Intn(0), and with one and the same value.
RunsAgree(vals, k) ==
    /\ \A run \in coefThresholdRuns(vals, k) :
           /\ run.val # IntnPanic
           /\ run.calls <= Len(vals)
    /\ Cardinality(coefThreshold(vals, k)) = 1

\* C30: for every non-empty list and every 1 <= k <= len(coefs),
\* coefThreshold terminates for every sequence of pivot choices, never
\* recurses on an empty list, and returns the same value whatever pivots
\* are chosen.
C30_QuickSelectTerminates ==
    \A p \in Procs :
        /\ Done(p, "coefThreshold") =>
               /\ ret[p].val # IntnPanic
               /\ ret[p].calls <= Len(call[p].coefs)
               /\ RunsAgree(Magnitudes(call[p].coefs, 1), call[p].k)
               /\ coefThreshold(Magnitudes(call[p].coefs, 1), call[p].k) = {ret[p].val}
        /\ (Done(p, "coefThresholds") /\ call[p].coefs # <<>>) =>
               \A k \in 1 .. Len(call[p].coefs), n \in 1 .. ColourChannels :
                   RunsAgree(Magnitudes(call[p].coefs, n), k)

\* A run of coefThreshold on a list with a tie has recursed once.
C30_Witness ==
    \E p \in Procs :
        /\ Done(p, "coefThreshold")
        /\ ret[p].calls = 2
        /\ Len(call[p].coefs) = 3
        /\ Survivors(call[p].coefs, ret[p].val) > call[p].k

\* The number of buckets of channel c that list slot i.
Postings(st, i, c) ==
    Cardinality({sp \in Signs \X Positions : InBucket(st, sp[1], sp[2], c, i)})

\* The first (DC) coefficient of a hash is among the TopCoefs largest of
\* channel c.
ScaleCoefOnTop(hash, c) == Passes(hash, 0, c)

\* C22: for a hash whose thresholds are coefThresholds(coefs, TopCoefs), one
\* Add posts TopCoefs - 1 references to its slot in a channel when the
\* first coefficient is among the TopCoefs largest of the channel, and
\* TopCoefs otherwise; n images whose first coefficient is on top in every
\* channel make n * (TopCoefs - 1) * 3 postings in all.
C22_PostingsPerAdd ==
    /\ \A q \in Procs :
           AddedNew(q) =>
               \A c \in 1 .. ColourChannels :
                   Postings(store, Len(entry[q].candidates), c) =
                       IF ScaleCoefOnTop(call[q].hash, c) THEN TopCoefs - 1 ELSE TopCoefs
    /\ (/\ ~mutex.writer
        /\ \A i \in 1 .. Len(store.candidates) : store.candidates[i].id # Nil
        /\ \A i \in 1 .. Len(posted), c \in 1 .. ColourChannels : ScaleCoefOnTop(posted[i], c))
       => \A c \in 1 .. ColourChannels :
              Cardinality({x \in (0 .. (Len(posted) - 1)) \X Signs \X Positions :
                              InBucket(store, x[2], x[3], c, x[1])})
                  = Len(posted) * (TopCoefs - 1)

\* An image with every gray value doubled, and a number doubled.
Doubled(img) == [img EXCEPT !.Pix = [i \in 1 .. Len(img.Pix) |-> 2 * img.Pix[i]]]

Twice(x) == Normal(<<2 * x[1], 2 * x[2], x[3]>>)

\* All pixels of an image are equal.
OneColour(img) == \A i, j \in 1 .. Len(img.Pix) : img.Pix[i] = img.Pix[j]

\* Only the first entry of a matrix is not zero.
OnlyFirstNonZero(matrix) ==
    /\ Len(matrix.Coefs) >= 1
    /\ Channel(matrix)[1] # Number(0)
    /\ \A i \in 2 .. Len(matrix.Coefs) : Channel(matrix)[i] = Number(0)

\* The transform of the doubled image is the doubled transform.
DoublingDoubles(img, matrix) ==
    Channel(Transform(Doubled(img))) = [i \in 1 .. Len(matrix.Coefs) |-> Twice(Channel(matrix)[i])]

\* C23: the transform of an image whose pixels are all equal has one
\* non-zero entry, the first (DC) one; and doubling every input value
\* doubles every coefficient.
C23_UniformImageHasOnlyDC ==
    \A p \in Procs :
        Done(p, "Transform") =>
            /\ OneColour(call[p].img) => OnlyFirstNonZero(ret[p].val)
            /\ DoublingDoubles(call[p].img, ret[p].val)

\* The part of C23 that holds: widths and heights 1, 2 and 4, and the
\* doubling for every image.
C23_PowersOfTwo ==
    \A p \in Procs :
        Done(p, "Transform") =>
            /\ (/\ OneColour(call[p].img)
                /\ call[p].img.Width \in {1, 2, 4}
                /\ call[p].img.Height \in {1, 2, 4}) => OnlyFirstNonZero(ret[p].val)
            /\ DoublingDoubles(call[p].img, ret[p].val)

\* C29: Less is a strict ordering on every list of matches, nil entries
\* included: Less(i, i) is never true, and Less(i, j) and Less(j, i) are
\* never both true.
C29_LessIsStrict ==
    \A p \in Procs :
        Done(p, "Less") =>
            /\ call[p].i = call[p].j => ~ret[p].val
            /\ ~(ret[p].val /\ Less(call[p].m, call[p].j, call[p].i))

\* The part of C29 that holds: Less is strict on the entries that are not nil.
C29_StrictOnScores ==
    \A p \in Procs :
        (/\ Done(p, "Less")
         /\ call[p].m[call[p].i + 1] # NilMatch
         /\ call[p].m[call[p].j + 1] # NilMatch) =>
            /\ call[p].i = call[p].j => ~ret[p].val
            /\ ~(ret[p].val /\ Less(call[p].m, call[p].j, call[p].i))

\* The average of two bytes, without the width of a byte.
Average(a, b) == (a + b) \div 2

\* The bit of channel n (2 for Cb, 3 for Cr) for the pixel (x, y) of an even
\* row, from the averages of the pixel and the one below it.
AverageBit(scaled, avg(_, _), n, x, y) ==
    LET At(cx) == avg(ChannelAt(scaled, n, cx, y + 1), ChannelAt(scaled, n, cx, y))
    IN  IF x = 0 THEN TopBit(At(0)) ELSE At(x) > At(x - 1)

EvenRowCells == {cell \in ScanCells : cell[2] % 2 = 0}

\* C24: on the even rows dHash writes the Cb (and the Cr) bit of column 0 iff
\* the average floor((top + bottom) / 2) of the two rows' values has its top
\* bit set, and of a column x > 0 iff the average at x is greater than the
\* average at x - 1, for all byte values, sums above 255 included.
C24_ChromaBitsFromAverages ==
    \A p \in Procs :
        Done(p, "dHash") =>
            \A cell \in EvenRowCells :
                /\ cell \in ret[p].cbCells <=> AverageBit(call[p].img, Average, 2, cell[1], cell[2])
                /\ cell \in ret[p].crCells <=> AverageBit(call[p].img, Average, 3, cell[1], cell[2])

\* What holds in place of C24: the bits follow the halved low eight bits of
\* the sums, and so the bit of column 0 is never written.
C24_ChromaBitsFromWrappedSums ==
    \A p \in Procs :
        Done(p, "dHash") =>
            \A cell \in EvenRowCells :
                /\ cell \in ret[p].cbCells <=> AverageBit(call[p].img, HalfSum, 2, cell[1], cell[2])
                /\ cell \in ret[p].crCells <=> AverageBit(call[p].img, HalfSum, 3, cell[1], cell[2])
                /\ cell[1] = 0 => cell \notin ret[p].cbCells \cup ret[p].crCells

\* The median count of the channel of bin i: Y for the bins 0 .. 31, Cb for
\* 32 .. 47, Cr for 48 .. 63.
ChannelMedian(h, i) ==
    IF i < 32 THEN SortedAt(h, 0, 32, 16)
    ELSE IF i < 48 THEN SortedAt(h, 32, 48, 8)
    ELSE SortedAt(h, 48, 64, 8)

AboveMedian(h, i) == h[i] > ChannelMedian(h, i)

\* C25: for every i in 0 .. 63, bit i of the histogram vector is 1 iff the
\* count of bin i is greater than the median count of the bin's channel.
C25_BitPerBin ==
    \A p \in Procs :
        Done(p, "histogram") =>
            LET h == histogramCounts(call[p].img)
            IN  \A i \in 0 .. (HistogramBins - 1) : i \in ret[p].val <=> AboveMedian(h, i)

\* What holds in place of C25: the bits of the Cb and Cr bins lie 32 lower,
\* on the bits of the Y bins, and no bit from 32 on is ever set.
C25_ChromaBitsOnLowWord ==
    \A p \in Procs :
        Done(p, "histogram") =>
            LET h == histogramCounts(call[p].img)
            IN  \A i \in 0 .. (HistogramBins - 1) :
                    i \in ret[p].val <=> (i < 32 /\ (AboveMedian(h, i) \/ AboveMedian(h, i + 32)))

\* The medians are not all zero in some call.
C25_MedianAboveZero ==
    \E p \in Procs :
        /\ Done(p, "histogram")
        /\ ChannelMedian(histogramCounts(call[p].img), 0) > 0
        /\ ChannelMedian(histogramCounts(call[p].img), 32) > 0

\* Every slot listed in a bucket is below Size(), and every id of the map
\* resolves to its candidate.
Coherent(st) ==
    /\ \A i \in IndexedSlots(st) : i < Size(st)
    /\ \A id \in DOMAIN st.ids :
           /\ st.ids[id] < Size(st)
           /\ st.candidates[st.ids[id] + 1].id = id

\* The candidates, the id map and the buckets of the store are those at the
\* entry of the call of goroutine p.
Untouched(p) ==
    /\ store.candidates = entry[p].candidates
    /\ store.ids = entry[p].ids
    /\ store.indices = entry[p].indices

\* C28: when GobDecode returns an error, the candidates, the id map and the
\* buckets of the store are the same as before the call, and the store is
\* coherent.
C28_FailedDecodeLeavesStore ==
    \A p \in Procs :
        (InRet(p, "GobDecode") /\ ret[p].err # Nil) =>
            /\ Untouched(p)
            /\ Coherent(entry[p]) => Coherent(store)

\* The part of C28 that holds: a failed GobDecode after which the candidates
\* are those of before (it failed before it had read their number) has left
\* the id map and the buckets as they were too.
C28_FailedAtOnceLeavesStore ==
    \A p \in Procs :
        (/\ InRet(p, "GobDecode")
         /\ ret[p].err # Nil
         /\ store.candidates = entry[p].candidates) => Untouched(p)

\* The slots of a store that hold a candidate with an id.
LiveSlots(st) == {i \in 0 .. (Size(st) - 1) : Live(st, i)}

\* Every bucket of store st lists the slots it listed in store old, in the
\* same order, before any others.
BucketsKept(old, st) ==
    \A s \in Signs, p \in Positions :
        /\ Len(old.indices[s][p]) <= Len(st.indices[s][p])
        /\ \A c \in 1 .. Len(old.indices[s][p]) :
               /\ Len(old.indices[s][p][c]) <= Len(st.indices[s][p][c])
               /\ SubSeq(st.indices[s][p][c], 1, Len(old.indices[s][p][c])) = old.indices[s][p][c]

\* C26: however concurrent Adds interleave, an Add of an id that another Add
\* has inserted is a no-op, so an id has one candidate; the Adds that insert
\* get the slots 0, 1, 2, ... in the order they take the lock, without gaps;
\* no posting and no entry of the id map is lost; and Size() is the number
\* of distinct ids added.
C26_ConcurrentAdds ==
    /\ \A p \in Procs :
           /\ (InRet(p, "Add") /\ call[p].id \in DOMAIN entry[p].ids) => store = entry[p]
           /\ AddedNew(p) =>
                  /\ Size(store) = Size(entry[p]) + 1
                  /\ call[p].id \in DOMAIN store.ids
                  /\ store.ids[call[p].id] = Size(entry[p])
                  /\ store.candidates[Size(store)].id = call[p].id
                  /\ SubSeq(store.candidates, 1, Size(entry[p])) = entry[p].candidates
                  /\ \A id \in DOMAIN entry[p].ids :
                         id \in DOMAIN store.ids /\ store.ids[id] = entry[p].ids[id]
                  /\ BucketsKept(entry[p], store)
                  /\ \A c \in 1 .. ColourChannels, q \in Positions \ {0} :
                         Passes(call[p].hash, q, c) =>
                             InBucket(store, SignBit(call[p].hash, q, c), q, c, Size(entry[p]))
    /\ ~mutex.writer =>
           /\ Size(store) = Len(posted)
           /\ \A i, j \in LiveSlots(store) :
                  store.candidates[i + 1].id = store.candidates[j + 1].id => i = j
           /\ {store.ids[id] : id \in DOMAIN store.ids} = LiveSlots(store)
           /\ LiveSlots(store) = 0 .. (Size(store) - 1) =>
                  Size(store) = Cardinality(DOMAIN store.ids)

\* Two Adds of two ids have run one after the other, and a third Add, of the
\* id added first, returns without having changed the store: the two ids
\* have the slots 0 and 1.
C26_Witness ==
    \E p \in Procs :
        /\ InRet(p, "Add")
        /\ call[p].id \in DOMAIN entry[p].ids
        /\ store.ids[call[p].id] = 0
        /\ Size(store) = 2
        /\ LiveSlots(store) = {0, 1}
        /\ Cardinality(DOMAIN store.ids) = 2
        /\ \E q \in Procs \ {p} : pc[q] = "idle"

\* The slots of a store that are tombstoned.
Tombstones(st) == {i \in 0 .. (Size(st) - 1) : ~Live(st, i)}

\* Goroutine p returns from Add(id, h2), id being the id the last Delete has
\* removed and not the id of any candidate when Add took the lock.
AddedAfterDelete(p) ==
    /\ InRet(p, "Add")
    /\ deleted = call[p].id
    /\ \A i \in 1 .. Len(entry[p].candidates) : entry[p].candidates[i].id # call[p].id

\* Two hashes have a significant coefficient of the same sign at a position
\* from 1 on.
SharePosting(h1, h2) ==
    \E q \in Positions \ {0}, c \in 1 .. ColourChannels :
        /\ Passes(h1, q, c)
        /\ Passes(h2, q, c)
        /\ SignBit(h1, q, c) = SignBit(h2, q, c)

\* C27: an Add(id, h2) that follows Delete(id) appends a new slot: Size()
\* grows by one, Has(id) is true and the id map points to the new slot; the
\* tombstoned slots stay tombstoned and in no bucket; and a query matches an
\* id only through the postings of the hash its present slot was added with.
C27_AddAfterDelete ==
    \A p \in Procs :
        /\ AddedAfterDelete(p) =>
               /\ Tombstones(entry[p]) # {}
               /\ Size(store) = Size(entry[p]) + 1
               /\ Has(store, call[p].id)
               /\ store.ids[call[p].id] = Size(entry[p])
               /\ store.candidates[Size(store)].id = call[p].id
               /\ Tombstones(store) = Tombstones(entry[p])
               /\ Tombstones(store) \cap IndexedSlots(store) = {}
               /\ \A q \in Positions \ {0}, c \in 1 .. ColourChannels, sign \in Signs :
                      InBucket(store, sign, q, c, Size(entry[p]))
                          <=> (Passes(call[p].hash, q, c) /\ sign = SignBit(call[p].hash, q, c))
        /\ InRet(p, "Query") =>
               /\ ~ret[p].panic
               /\ \A id \in MatchIDSet(ret[p]) :
                      /\ id \in DOMAIN store.ids
                      /\ Count(MatchIDs(ret[p]), id) = 1
                      /\ SharePosting(call[p].hash, posted[store.ids[id] + 1])

\* Add(id, h2) returns after Delete(id) has tombstoned slot 0, the only
\* slot, which had been added with another hash than h2.
C27_Witness ==
    \E p \in Procs :
        /\ AddedAfterDelete(p)
        /\ Size(entry[p]) = 1
        /\ Tombstones(entry[p]) = {0}
        /\ posted[1] # call[p].hash
        /\ store.ids[call[p].id] = 1

====
